---- MODULE Spec2Model ----
(***************************************************************************)
(* VeilChain Python SDK: offline proof verification                        *)
(* (sdk/python/veilchain/verify.py, types.py).                             *)
(*                                                                         *)
(* Python str values are sequences of one-character strings, bytes values  *)
(* are sequences of integers 0..255.  A call that can raise returns a      *)
(* record with a field saying whether it raised.                           *)
(***************************************************************************)
EXTENDS Integers, Sequences, FiniteSets, TLC

\* Longest sibling path / direction list / compact bitstring drawn as input.
MaxPath == 2

\* Width of a hex digest: len(...) != 64 and range(0, len(p), 64).
HashLen == 64

----------------------------------------------------------------------------
(* Characters and strings *)

\* The printable ASCII characters 32..95 and 97..126, in code order.
AsciiLow ==
  << " ", "!", "\"", "#", "$", "%", "&", "'", "(", ")", "*", "+", ",", "-", ".", "/",
     "0", "1", "2", "3", "4", "5", "6", "7", "8", "9", ":", ";", "<", "=", ">", "?",
     "@", "A", "B", "C", "D", "E", "F", "G", "H", "I", "J", "K", "L", "M", "N", "O",
     "P", "Q", "R", "S", "T", "U", "V", "W", "X", "Y", "Z", "[", "\\", "]", "^", "_" >>

AsciiHigh ==
  << "a", "b", "c", "d", "e", "f", "g", "h", "i", "j", "k", "l", "m", "n", "o",
     "p", "q", "r", "s", "t", "u", "v", "w", "x", "y", "z", "{", "|", "}", "~" >>

\* ord(c) for a printable ASCII character.
Ord(c) ==
  IF \E i \in 1..Len(AsciiLow) : AsciiLow[i] = c
  THEN 31 + CHOOSE i \in 1..Len(AsciiLow) : AsciiLow[i] = c
  ELSE 96 + CHOOSE i \in 1..Len(AsciiHigh) : AsciiHigh[i] = c

\* c * n for a one-character str c.
Rep(c, n) == [k \in 1..n |-> c]

\* str.encode("utf-8") on ASCII text: one byte per character.
Utf8Encode(s) == [k \in 1..Len(s) |-> Ord(s[k])]

\* CPython's _PyLong_DigitValue on the hex digits; 37 stands for every value
\* that is not below 16.
DigitValue(c) ==
  CASE c = "0" -> 0 [] c = "1" -> 1 [] c = "2" -> 2 [] c = "3" -> 3 [] c = "4" -> 4
    [] c = "5" -> 5 [] c = "6" -> 6 [] c = "7" -> 7 [] c = "8" -> 8 [] c = "9" -> 9
    [] c = "a" -> 10 [] c = "b" -> 11 [] c = "c" -> 12 [] c = "d" -> 13
    [] c = "e" -> 14 [] c = "f" -> 15
    [] c = "A" -> 10 [] c = "B" -> 11 [] c = "C" -> 12 [] c = "D" -> 13
    [] c = "E" -> 14 [] c = "F" -> 15
    [] OTHER -> 37

IsHexDigit(c) == DigitValue(c) < 16

\* Py_ISSPACE on the printable characters.
IsSpace(c) == c = " "

\* The digits of bytes.hex() / hexdigest(): lowercase.
HexDigits == << "0", "1", "2", "3", "4", "5", "6", "7", "8", "9", "a", "b", "c", "d", "e", "f" >>

----------------------------------------------------------------------------
(* Hash primitive *)

NoMessage == << >>

FromHexError(pos) == << "non-hexadecimal number found in fromhex() arg at position", pos >>

\* bytes.fromhex reads two hex digits per byte and skips whitespace between
\* bytes; anything else raises ValueError naming the 0-based position. Up to the
\* first offending character every character is a hex digit or whitespace, so
\* the scanner is in the middle of a byte exactly when it has passed an odd
\* number of hex digits.
hex_to_bytes(hex_str) ==
  LET n == Len(hex_str)
      nonHex == {i \in 1..n : ~IsHexDigit(hex_str[i])}
      digitsBefore(i) == (i - 1) - Cardinality({k \in nonHex : k < i})
      offending == {i \in nonHex :
                      ~IsSpace(hex_str[i]) \/ digitsBefore(i) % 2 = 1}
      digits == SelectSeq(hex_str, IsHexDigit)
  IN IF offending # {}
     THEN [raised |-> TRUE, bytes |-> << >>,
           message |-> FromHexError((CHOOSE i \in offending :
                                       \A j \in offending : i <= j) - 1)]
     ELSE IF Len(digits) % 2 = 1
     THEN [raised |-> TRUE, bytes |-> << >>, message |-> FromHexError(n)]
     ELSE [raised |-> FALSE, message |-> NoMessage,
           bytes |-> [k \in 1..(Len(digits) \div 2) |->
                        DigitValue(digits[2 * k - 1]) * 16 + DigitValue(digits[2 * k])]]

\* Modulus and multiplier of the digest that stands for hashlib's SHA-256:
\* h <- (h * 33 + byte + 1) mod 32749 over the bytes in order, from 5381.
\* Deterministic, order-sensitive, fixed output width.
RECURSIVE PowMod(_)
PowMod(k) ==
  IF k = 0 THEN 1
  ELSE LET h == PowMod(k \div 2)
           sq == (h * h) % 32749
       IN IF k % 2 = 1 THEN (sq * 33) % 32749 ELSE sq

\* The digest state after data[lo..hi] starting from state 0, computed by halves.
RECURSIVE Compress(_, _, _)
Compress(data, lo, hi) ==
  IF lo > hi THEN 0
  ELSE IF lo = hi THEN (data[lo] + 1) % 32749
  ELSE LET mid == (lo + hi) \div 2
       IN (Compress(data, lo, mid) * PowMod(hi - mid) + Compress(data, mid + 1, hi)) % 32749

\* hexdigest(): HashLen lowercase hex digits.
HexDigest(h) ==
  [k \in 1..HashLen |->
     LET nib == (k - 1) % 4
         shift == IF nib = 0 THEN 1 ELSE IF nib = 1 THEN 16 ELSE IF nib = 2 THEN 256 ELSE 4096
     IN HexDigits[((h \div shift) % 16) + 1]]

sha256(data) ==
  HexDigest((((5381 * PowMod(Len(data))) % 32749) + Compress(data, 1, Len(data))) % 32749)

\* a comes before b, or is b, in the order of Python's bytes.
BytesBefore(a, b) ==
  \/ \E k \in 1..Len(a) :
       /\ k <= Len(b) /\ a[k] < b[k]
       /\ \A j \in 1..(k - 1) : a[j] = b[j]
  \/ Len(a) <= Len(b) /\ \A j \in 1..Len(a) : a[j] = b[j]

\* A pair hash that puts the smaller of the two byte strings first.
HashPairSorted(l, r) ==
  IF l.raised THEN [raised |-> TRUE, value |-> << >>, message |-> l.message]
  ELSE IF r.raised THEN [raised |-> TRUE, value |-> << >>, message |-> r.message]
  ELSE [raised |-> FALSE, message |-> NoMessage,
        value |-> IF BytesBefore(l.bytes, r.bytes)
                  THEN sha256(l.bytes \o r.bytes) ELSE sha256(r.bytes \o l.bytes)]

\* _hash_pair once both arguments have gone through _hex_to_bytes: it raises
\* what the first failing conversion raised (left first).
HashPairOf(l, r) ==
  IF l.raised THEN [raised |-> TRUE, value |-> << >>, message |-> l.message]
  ELSE IF r.raised THEN [raised |-> TRUE, value |-> << >>, message |-> r.message]
  ELSE [raised |-> FALSE, value |-> sha256(l.bytes \o r.bytes), message |-> NoMessage]

hash_pair(left, right) == HashPairOf(hex_to_bytes(left), hex_to_bytes(right))

----------------------------------------------------------------------------
(* Proof verifier *)

NoError == << >>

\* types.py: MerkleProof
MerkleProof(leaf, index, proof, directions, root) ==
  [leaf |-> leaf, index |-> index, proof |-> proof, directions |-> directions,
   root |-> root]

\* types.py: VerifyProofResult
VerifyProofResult(valid, leaf, root, index, proofLength, error) ==
  [valid |-> valid, leaf |-> leaf, root |-> root, index |-> index,
   proof_length |-> proofLength, error |-> error]

\* not proof.leaf or len(proof.leaf) != 64
LeafInvalid(proof) == Len(proof.leaf) = 0 \/ Len(proof.leaf) # HashLen

\* not proof.root or len(proof.root) != 64
RootInvalid(proof) == Len(proof.root) = 0 \/ Len(proof.root) # HashLen

\* The length comparison left out.
LengthMismatchUnchecked(proof) == FALSE

\* len(proof.proof) != len(proof.directions)
LengthMismatch(proof) == Len(proof.proof) # Len(proof.directions)

\* zip(proof.proof, proof.directions): stops at the shorter of the two.
Zip(xs, ys) ==
  [k \in 1..(IF Len(xs) <= Len(ys) THEN Len(xs) ELSE Len(ys)) |-> << xs[k], ys[k] >>]

\* The loop body with the two branches exchanged.
StepSwapped(current_hash, sibling_hash, direction) ==
  IF direction = "left"
  THEN hash_pair(current_hash, sibling_hash)
  ELSE hash_pair(sibling_hash, current_hash)

\* The loop body: the next value of current_hash (or what _hash_pair raised).
Step(current_hash, sibling_hash, direction) ==
  IF direction = "left"
  THEN hash_pair(sibling_hash, current_hash)
  ELSE hash_pair(current_hash, sibling_hash)

\* The for loop from pair k on. currents lists every value current_hash has
\* had, calls counts the _hash_pair calls made; h is what the loop body gave.
RECURSIVE Loop(_, _, _, _)
RECURSIVE LoopAfter(_, _, _, _, _)
Loop(pairs, k, currents, calls) ==
  IF k > Len(pairs)
  THEN [raised |-> FALSE, currents |-> currents, calls |-> calls, message |-> NoMessage]
  ELSE LoopAfter(pairs, k, currents, calls,
                 Step(currents[Len(currents)], pairs[k][1], pairs[k][2]))

LoopAfter(pairs, k, currents, calls, h) ==
  IF h.raised
  THEN [raised |-> TRUE, currents |-> currents, calls |-> calls + 1,
        message |-> h.message]
  ELSE Loop(pairs, k + 1, Append(currents, h.value), calls + 1)

\* A return from the try block before the loop has started.
EarlyReturn(proof, error) ==
  [raised |-> FALSE, currents |-> << >>, calls |-> 0, message |-> NoMessage,
   result |-> VerifyProofResult(FALSE, proof.leaf, proof.root, proof.index,
                                Len(proof.proof), error)]

\* 2^n
RECURSIVE Pow2(_)
Pow2(n) == IF n = 0 THEN 1 ELSE 2 * Pow2(n - 1)

\* A comparison that also wants the index to be a position of a tree as high
\* as the path is long.
CompareWithIndexRange(proof, run, current_hash) ==
  [raised |-> run.raised, currents |-> run.currents, calls |-> run.calls,
   message |-> run.message,
   result |-> VerifyProofResult(
                current_hash = proof.root /\ proof.index < Pow2(Len(proof.proof)),
                proof.leaf, proof.root, proof.index, Len(proof.proof),
                IF current_hash = proof.root /\ proof.index < Pow2(Len(proof.proof))
                THEN NoError
                ELSE << "Computed root does not match expected root" >>)]

\* valid = current_hash == proof.root and the return that follows the loop.
Compare(proof, run, current_hash) ==
  [raised |-> run.raised, currents |-> run.currents, calls |-> run.calls,
   message |-> run.message,
   result |-> VerifyProofResult(current_hash = proof.root, proof.leaf, proof.root,
                proof.index, Len(proof.proof),
                IF current_hash = proof.root THEN NoError
                ELSE << "Computed root does not match expected root" >>)]

AfterLoop(proof, run) == Compare(proof, run, run.currents[Len(run.currents)])

\* The body of the try block with the root checked before the leaf.
TryBodyRootFirst(proof) ==
  IF RootInvalid(proof)
  THEN EarlyReturn(proof, << "Invalid root hash: must be 64 character hex string" >>)
  ELSE IF LeafInvalid(proof)
  THEN EarlyReturn(proof, << "Invalid leaf hash: must be 64 character hex string" >>)
  ELSE IF LengthMismatch(proof)
  THEN EarlyReturn(proof, << "Proof and directions arrays must have the same length" >>)
  ELSE AfterLoop(proof, Loop(Zip(proof.proof, proof.directions), 1, << proof.leaf >>, 0))

\* The body of the try block.
TryBody(proof) ==
  IF LeafInvalid(proof)
  THEN EarlyReturn(proof, << "Invalid leaf hash: must be 64 character hex string" >>)
  ELSE IF RootInvalid(proof)
  THEN EarlyReturn(proof, << "Invalid root hash: must be 64 character hex string" >>)
  ELSE IF LengthMismatch(proof)
  THEN EarlyReturn(proof, << "Proof and directions arrays must have the same length" >>)
  ELSE AfterLoop(proof, Loop(Zip(proof.proof, proof.directions), 1, << proof.leaf >>, 0))

\* An except clause that reports the failure without the text of the exception.
ExceptHandlerWithoutMessage(proof, body) ==
  [raised |-> FALSE, currents |-> body.currents, calls |-> body.calls,
   message |-> NoMessage,
   result |-> VerifyProofResult(FALSE, proof.leaf, proof.root, proof.index,
                Len(proof.proof), NoError)]

\* except Exception as e: the result built from str(e).
ExceptHandler(proof, body) ==
  [raised |-> FALSE, currents |-> body.currents, calls |-> body.calls,
   message |-> NoMessage,
   result |-> VerifyProofResult(FALSE, proof.leaf, proof.root, proof.index,
                Len(proof.proof), body.message)]

\* The try block without its except clause.
TryWithoutExcept(proof, body) == body

\* try: ... except Exception
TryExcept(proof, body) == IF body.raised THEN ExceptHandler(proof, body) ELSE body

verify_proof(proof) == TryExcept(proof, TryBody(proof))

----------------------------------------------------------------------------
(* Compact codec *)

\* types.py: CompactProof
CompactProof(v, l, r, i, p, d) == [v |-> v, l |-> l, r |-> r, i |-> i, p |-> p, d |-> d]

\* Slices that stop one character early.
SplitHashesShort(p) ==
  [k \in 1..((Len(p) + HashLen - 1) \div HashLen) |->
     SubSeq(p, HashLen * (k - 1) + 1,
            IF HashLen * k - 1 <= Len(p) THEN HashLen * k - 1 ELSE Len(p))]

\* [p[i : i + 64] for i in range(0, len(p), 64)]: the last slice is what is left.
SplitHashes(p) ==
  [k \in 1..((Len(p) + HashLen - 1) \div HashLen) |->
     SubSeq(p, HashLen * (k - 1) + 1,
            IF HashLen * k <= Len(p) THEN HashLen * k ELSE Len(p))]

\* The two directions exchanged.
ParseDirectionInverted(d) == IF d = "0" THEN "right" ELSE "left"

\* "left" if d == "0" else "right"
ParseDirection(d) == IF d = "0" THEN "left" ELSE "right"

\* parse_compact_proof has no raise and no validation of its own.
parse_compact_proof(compact) ==
  [raised |-> FALSE,
   value |-> MerkleProof(compact.l, compact.i, SplitHashes(compact.p),
                         [k \in 1..Len(compact.d) |-> ParseDirection(compact.d[k])],
                         compact.r)]

\* "".join(parts) from part k on.
RECURSIVE JoinFrom(_, _)
JoinFrom(parts, k) ==
  IF k > Len(parts) THEN << >> ELSE parts[k] \o JoinFrom(parts, k + 1)

\* The parts joined last to first.
JoinReversed(parts) == JoinFrom([k \in 1..Len(parts) |-> parts[Len(parts) + 1 - k]], 1)

Join(parts) == JoinFrom(parts, 1)

\* The hashes joined with a comma between them.
to_compact_proof_separated(proof) ==
  CompactProof(1, proof.leaf, proof.root, proof.index,
               Join([k \in 1..Len(proof.proof) |->
                       IF k = 1 THEN proof.proof[k] ELSE << "," >> \o proof.proof[k]]),
               [k \in 1..Len(proof.directions) |->
                  IF proof.directions[k] = "left" THEN "0" ELSE "1"])

\* "0" if d == "left" else "1"
DirectionBit(d) == IF d = "left" THEN "0" ELSE "1"

to_compact_proof(proof) ==
  CompactProof(1, proof.leaf, proof.root, proof.index, Join(proof.proof),
               [k \in 1..Len(proof.directions) |-> DirectionBit(proof.directions[k])])

----------------------------------------------------------------------------
(* Data binder *)

\* A text value, or a dict of text keys and text values in insertion order.
TextValue(text) == [kind |-> "str", text |-> text, items |-> << >>]
DictValue(items) == [kind |-> "dict", text |-> << >>, items |-> items]

\* json.dumps of a str: quoted, with the quote and the backslash escaped.
JsonChar(c) == IF c = "\"" \/ c = "\\" THEN << "\\", c >> ELSE << c >>

JsonString(text) == << "\"" >> \o Join([k \in 1..Len(text) |-> JsonChar(text[k])]) \o << "\"" >>

\* json.dumps(data) with its default separators ", " and ": ".
JsonDumpsDefaultSeparators(items) ==
  << "{" >>
  \o Join([k \in 1..Len(items) |->
             (IF k = 1 THEN << >> ELSE << ",", " " >>)
             \o JsonString(items[k][1]) \o << ":", " " >> \o JsonString(items[k][2])])
  \o << "}" >>

\* json.dumps(data, separators=(",", ":")) of a dict: no whitespace is inserted.
JsonDumps(items) ==
  << "{" >>
  \o Join([k \in 1..Len(items) |->
             (IF k = 1 THEN << >> ELSE << "," >>)
             \o JsonString(items[k][1]) \o << ":" >> \o JsonString(items[k][2])])
  \o << "}" >>

hash_data(data) ==
  LET serialized == IF data.kind = "str" THEN data.text ELSE JsonDumps(data.items)
  IN sha256(Utf8Encode(serialized))

verify_data(data, expected_hash) == hash_data(data) = expected_hash

\* DataVerifyResult: VerifyProofResult and data_match.
DataVerifyResult(valid, data_match, leaf, root, index, proofLength, error) ==
  [valid |-> valid, data_match |-> data_match, leaf |-> leaf, root |-> root,
   index |-> index, proof_length |-> proofLength, error |-> error]

\* The return for data that does not hash to the leaf.
DataMismatch(proof) ==
  [raised |-> FALSE, currents |-> << >>, calls |-> 0, verifyCalls |-> 0,
   result |-> DataVerifyResult(FALSE, FALSE, proof.leaf, proof.root,
                proof.index, Len(proof.proof),
                << "Data hash does not match proof leaf" >>)]

\* The return that forwards the verdict of verify_proof without its error.
DataMatchWithoutError(proof_result) ==
  [raised |-> proof_result.raised, currents |-> proof_result.currents,
   calls |-> proof_result.calls, verifyCalls |-> 1,
   result |-> DataVerifyResult(proof_result.result.valid, TRUE,
                proof_result.result.leaf, proof_result.result.root,
                proof_result.result.index, proof_result.result.proof_length,
                << >>)]

\* The return built from proof_result = verify_proof(proof).
DataMatch(proof_result) ==
  [raised |-> proof_result.raised, currents |-> proof_result.currents,
   calls |-> proof_result.calls, verifyCalls |-> 1,
   result |-> DataVerifyResult(proof_result.result.valid, TRUE,
                proof_result.result.leaf, proof_result.result.root,
                proof_result.result.index, proof_result.result.proof_length,
                proof_result.result.error)]

\* The proof verified without the data having been compared with the leaf.
verify_data_with_proof_unchecked(data, proof) == DataMatch(verify_proof(proof))

\* verifyCalls counts the calls of verify_proof.
verify_data_with_proof(data, proof) ==
  IF hash_data(data) # proof.leaf
  THEN DataMismatch(proof)
  ELSE DataMatch(verify_proof(proof))

----------------------------------------------------------------------------
(* API client: _request of VeilChain and of AsyncVeilChain *)

MaxRetries == 2

\* None where an int is expected (VeilChainError.status).
NoStatus == -1

\* types.py: VeilChainError(message, status, code); every other exception has
\* no status and no code.
VeilChainError(message, status, code) ==
  [type |-> "VeilChainError", message |-> message, status |-> status, code |-> code]

OtherException(type, message) ==
  [type |-> type, message |-> message, status |-> NoStatus, code |-> "None"]

\* last_error: Exception | None = None
NoException == [type |-> "None", message |-> << >>, status |-> NoStatus, code |-> "None"]

\* What self._client.request does: it raises, or it returns a response with a
\* status code and a body.
TransportException(type) == [kind |-> "exception", type |-> type, status |-> 0, content |-> "none"]
Response(status, content) == [kind |-> "response", type |-> "Response", status |-> status, content |-> content]

\* The bodies: b"", {"id": 1}, {"error": {"message": "nope", "code": "NOT_FOUND"}},
\* {"error": "nope"} and a body that is not JSON.
Contents == {"empty", "object", "error_object", "error_text", "not_json"}
Statuses == {200, 302, 400, 499, 500}
Responses ==
  {TransportException(t) : t \in {"ConnectError", "ReadTimeout"}}
    \cup {Response(s, c) : s \in Statuses, c \in Contents}

\* response.is_success: a 2xx status.
IsSuccess(response) == 200 <= response.status /\ response.status <= 299

\* A value the function hands back: None, or the parsed body.
NoneValue == [none |-> TRUE, body |-> "empty"]
JsonValue(content) == [none |-> FALSE, body |-> content]

Returns(value) == [kind |-> "return", value |-> value, error |-> NoException]
NoOutcome == [kind |-> "none", value |-> NoneValue, error |-> NoException]
Raises(error) == [kind |-> "raise", value |-> NoneValue, error |-> error]

\* response.json(): the parsed body, or json's decode error.
ResponseJson(response) ==
  IF response.content = "not_json"
  THEN Raises(OtherException("JSONDecodeError", << "Expecting value" >>))
  ELSE Returns(JsonValue(response.content))

\* if not response.is_success: the VeilChainError built from the body, or the
\* exception that building it raises.
RaiseForStatus(response) ==
  IF response.content = "empty"
  THEN Raises(VeilChainError(<< "HTTP", response.status >>, response.status, "None"))
  ELSE IF response.content = "not_json"
  THEN ResponseJson(response)
  ELSE IF response.content = "error_text"
  THEN Raises(OtherException("AttributeError", << "'str' object has no attribute 'get'" >>))
  ELSE IF response.content = "error_object"
  THEN Raises(VeilChainError(<< "nope" >>, response.status, "NOT_FOUND"))
  ELSE Raises(VeilChainError(<< "HTTP", response.status >>, response.status, "None"))

\* return response.json() if response.content else None
ReturnBody(response) ==
  IF response.content = "empty" THEN Returns(NoneValue) ELSE ResponseJson(response)

\* The try block on what self._client.request did.
TryRequest(response) ==
  IF response.kind = "exception"
  THEN Raises(OtherException(response.type, << "transport" >>))
  ELSE IF ~IsSuccess(response) THEN RaiseForStatus(response)
  ELSE ReturnBody(response)

\* if e.status and 400 <= e.status < 500: raise
IsClientError(e) ==
  /\ e.type = "VeilChainError"
  /\ e.status # NoStatus /\ e.status # 0
  /\ 400 <= e.status /\ e.status < 500

\* time.sleep(2**attempt * 0.1) and asyncio.sleep(2**attempt * 0.1), in tenths
\* of a second.
BackoffTenths(a) == 2 ^ a

----------------------------------------------------------------------------
(* Inputs *)

HexA == Rep("a", HashLen)
HexB == Rep("b", HashLen)
\* HashLen characters, none of them a hex digit.
NonHex == Rep("g", HashLen)
\* HashLen characters that bytes.fromhex accepts although two are blanks.
Spaced == << " ", " " >> \o Rep("a", HashLen - 2)
\* Decodable hex of the wrong length.
ShortHex == Rep("b", 2)

SeqsUpTo(S, n) == UNION {[1..m -> S] : m \in 0..n}

\* The bytes of HexB written with capital digits.
UpperB == Rep("B", HashLen)

Leaves ==
  {<< >>, Rep("a", HashLen - 1), Rep("a", HashLen + 1), HexA, NonHex, Spaced, UpperB}
Siblings == {HexB, NonHex, ShortHex}
Directions == {"left", "right"}
Indices == {0, 5}

\* The root the path leads to when every step can be hashed.
LastOf(run) == IF run.raised THEN {} ELSE {run.currents[Len(run.currents)]}

ChainRoots(leaf, path, dirs) == LastOf(Loop(Zip(path, dirs), 1, << leaf >>, 0))

OtherDirection(d) == IF d = "left" THEN "right" ELSE "left"

\* The root the same path leads to with every direction exchanged.
SwappedRoots(leaf, path, dirs) ==
  ChainRoots(leaf, path, [k \in 1..Len(dirs) |-> OtherDirection(dirs[k])])

Roots(leaf, path, dirs) ==
  {<< >>, Rep("a", HashLen - 1), HexA, leaf}
    \cup ChainRoots(leaf, path, dirs) \cup SwappedRoots(leaf, path, dirs)

\* Concatenated paths: whole hashes, and strings that are not whole hashes.
CompactPaths ==
  {Join(path) : path \in SeqsUpTo({HexB, NonHex}, MaxPath)}
    \cup {ShortHex, HexB \o ShortHex, Rep("b", HashLen - 1)}

Bits == {"0", "1", "x"}
Versions == {1, 2}

Vote == << << "v", "o", "t", "e" >>, << "y", "e", "s" >> >>
\* The text of json.dumps({"vote": "yes"}, separators=(",", ":")).
VoteText == << "{", "\"", "v", "o", "t", "e", "\"", ":", "\"", "y", "e", "s", "\"", "}" >>
DataValues ==
  {TextValue(VoteText), DictValue(<< Vote >>),
   DictValue(<< << << "q", "\"" >>, << "\\" >> >>, Vote >>)}

DataLeaves == {hash_data(d) : d \in DataValues} \cup {NonHex}

NoProof == MerkleProof(<< >>, 0, << >>, << >>, << >>)
NoCompact == CompactProof(0, << >>, << >>, 0, << >>, << >>)
NoData == TextValue(<< >>)
NoResult == [none |-> TRUE]

\* p is a MerkleProof with its leaf drawn from leaves and its index from indices.
ProofInput(p, leaves, indices) ==
  \E leaf \in leaves, index \in indices, path \in SeqsUpTo(Siblings, MaxPath),
     dirs \in SeqsUpTo(Directions, MaxPath) :
    \E root \in Roots(leaf, path, dirs) :
      p = MerkleProof(leaf, index, path, dirs, root)

CompactInput(c) ==
  \E v \in Versions, l \in {HexA, << >>}, r \in {HexA, << >>}, i \in Indices,
     p \in CompactPaths, d \in SeqsUpTo(Bits, MaxPath) :
    c = CompactProof(v, l, r, i, p, d)

----------------------------------------------------------------------------
(* The calls *)

VARIABLES
  op,               \* the function called
  proof,            \* its MerkleProof argument
  compact,          \* its CompactProof argument
  data,             \* its data argument
  expected_hash,    \* its expected_hash argument
  pc,               \* "call" before the function has run, "done" after
  raised,           \* whether the call raised to its caller
  result,           \* what it returned
  currents,         \* the values current_hash has had
  hashPairCalls,    \* how many times _hash_pair was called
  verifyProofCalls, \* how many times verify_proof was called
  client,           \* the class whose _request runs
  retries,          \* self.retries
  attempt,          \* the loop variable of _request
  rpc,              \* where _request is: "try", "backoff", "after_loop", "returned", "raised"
  last_error,       \* its local last_error
  outcome,          \* what it returned or raised to its caller
  sent,             \* how many requests it has sent
  last_response,    \* what the last request was answered with
  sleeps,           \* the backoff sleeps it has made, in tenths of a second
  threads,          \* each thread's call: op, arg, pc, k, result, prev, calls
  objects,          \* the MerkleProof objects the threads pass
  given,            \* these objects as they were handed over
  current_hash      \* the local current_hash of each call of verify_proof in progress

inputs == << op, proof, compact, data, expected_hash >>
verifyVars == << op, proof, compact, data, expected_hash, pc, raised, result, currents,
                 hashPairCalls, verifyProofCalls >>
vars == << op, proof, compact, data, expected_hash, pc, raised, result, currents,
           hashPairCalls, verifyProofCalls, client, retries, attempt, rpc, last_error,
           outcome, sent, last_response, sleeps, threads, objects, given,
           current_hash >>

MaxCalls == 2

Threads == {1, 2}

\* Where a call of verify_proof by thread t keeps current_hash: a local
\* variable of the call, one for each call in progress.
SharedFrame(t) == 1

Frame(t) == t

\* A thread about to call op on the Proof object arg; it has made no call yet.
Thread(o, a) ==
  [op |-> o, arg |-> a, pc |-> "call", k |-> 0, result |-> NoResult, prev |-> NoResult,
   calls |-> 1]

\* The message of the first check of verify_proof that fails, if one does.
CheckError(p) ==
  IF LeafInvalid(p)
  THEN << "Invalid leaf hash: must be 64 character hex string" >>
  ELSE IF RootInvalid(p)
  THEN << "Invalid root hash: must be 64 character hex string" >>
  ELSE IF LengthMismatch(p)
  THEN << "Proof and directions arrays must have the same length" >>
  ELSE NoError

\* What the except clause and the comparison are given when the statements
\* run one at a time: the trace of the loop is not kept.
NoRun == [raised |-> FALSE, currents |-> << >>, calls |-> 0, message |-> NoMessage]
Raised(h) == [raised |-> TRUE, currents |-> << >>, calls |-> 0, message |-> h.message]

\* The value the second thread hashes, and a Proof that verifies.
ThreadData == DictValue(<< Vote >>)
OtherProof ==
  MerkleProof(HexA, 0, << HexB >>, << "left" >>, hash_pair(HexB, HexA).value)

threadVars == << threads, objects, given, current_hash >>

\* No thread is running.
ThreadsIdle ==
  /\ threads = << >> /\ objects = << >> /\ given = << >> /\ current_hash = << >>

requestVars == << client, retries, attempt, rpc, last_error, outcome, sent,
                  last_response, sleeps >>

\* No _request is in progress.
RequestIdle ==
  /\ client = "none" /\ retries = 0 /\ attempt = 0 /\ rpc = "idle"
  /\ last_error = NoException /\ outcome = NoOutcome
  /\ sent = 0 /\ last_response = Response(0, "empty") /\ sleeps = << >>

\* No function of verify.py is called.
VerifyIdle ==
  /\ op = "none" /\ pc = "idle"
  /\ proof = NoProof /\ compact = NoCompact /\ data = NoData /\ expected_hash = << >>
  /\ raised = FALSE /\ result = NoResult /\ currents = << >>
  /\ hashPairCalls = 0 /\ verifyProofCalls = 0

Init ==
  /\ RequestIdle
  /\ ThreadsIdle
  /\ pc = "call"
  /\ raised = FALSE
  /\ result = NoResult
  /\ currents = << >>
  /\ hashPairCalls = 0
  /\ verifyProofCalls = 0
  /\ \/ /\ op = "verify_proof"
        /\ ProofInput(proof, Leaves, Indices)
        /\ compact = NoCompact /\ data = NoData /\ expected_hash = << >>
     \/ /\ op = "to_compact_proof"
        /\ ProofInput(proof, {HexA}, Indices)
        /\ compact = NoCompact /\ data = NoData /\ expected_hash = << >>
     \/ /\ op = "parse_compact_proof"
        /\ CompactInput(compact)
        /\ proof = NoProof /\ data = NoData /\ expected_hash = << >>
     \/ /\ op = "hash_data"
        /\ data \in DataValues
        /\ proof = NoProof /\ compact = NoCompact /\ expected_hash = << >>
     \/ /\ op = "verify_data"
        /\ data \in DataValues
        /\ expected_hash \in DataLeaves
        /\ proof = NoProof /\ compact = NoCompact
     \/ /\ op = "verify_data_with_proof"
        /\ data \in DataValues
        /\ ProofInput(proof, DataLeaves, {5})
        /\ compact = NoCompact /\ expected_hash = << >>

\* The call returns r to its caller.
Return(r, verifyCalls) ==
  /\ raised' = r.raised
  /\ result' = r.result
  /\ currents' = r.currents
  /\ hashPairCalls' = r.calls
  /\ verifyProofCalls' = verifyCalls
  /\ pc' = "done"
  /\ UNCHANGED << inputs, requestVars, threadVars >>

ReturnValue(r) ==
  /\ raised' = r.raised
  /\ result' = r.value
  /\ pc' = "done"
  /\ UNCHANGED << inputs, currents, hashPairCalls, verifyProofCalls, requestVars,
                  threadVars >>

VerifyProof ==
  /\ pc = "call" /\ op = "verify_proof"
  /\ Return(verify_proof(proof), 1)

ParseCompactProof ==
  /\ pc = "call" /\ op = "parse_compact_proof"
  /\ ReturnValue(parse_compact_proof(compact))

ToCompactProof ==
  /\ pc = "call" /\ op = "to_compact_proof"
  /\ ReturnValue([raised |-> FALSE, value |-> to_compact_proof(proof)])

HashData ==
  /\ pc = "call" /\ op = "hash_data"
  /\ ReturnValue([raised |-> FALSE, value |-> hash_data(data)])

VerifyData ==
  /\ pc = "call" /\ op = "verify_data"
  /\ ReturnValue([raised |-> FALSE, value |-> verify_data(data, expected_hash)])

DataReturn(r) == Return(r, r.verifyCalls)

VerifyDataWithProof ==
  /\ pc = "call" /\ op = "verify_data_with_proof"
  /\ DataReturn(verify_data_with_proof(data, proof))

Next ==
  \/ VerifyProof
  \/ ParseCompactProof
  \/ ToCompactProof
  \/ HashData
  \/ VerifyData
  \/ VerifyDataWithProof

Spec == Init /\ [][Next]_vars

----------------------------------------------------------------------------
(* The calls of _request *)

\* A client built with retries = r has entered _request: for attempt in
\* range(self.retries + 1) starts at 0, or is over at once when there is
\* nothing in the range.
InitRequest ==
  /\ VerifyIdle
  /\ ThreadsIdle
  /\ client \in {"VeilChain", "AsyncVeilChain"}
  /\ retries \in -1..MaxRetries
  /\ attempt = 0
  /\ rpc = IF retries + 1 > 0 THEN "try" ELSE "after_loop"
  /\ last_error = NoException
  /\ outcome = NoOutcome
  /\ sent = 0
  /\ last_response = Response(0, "empty")
  /\ sleeps = << >>

\* The except clauses on what the try block raised: a client error goes to the
\* caller, anything else is kept in last_error.
Except(t) ==
  IF IsClientError(t.error)
  THEN /\ rpc' = "raised"
       /\ outcome' = t
       /\ UNCHANGED last_error
  ELSE /\ rpc' = "backoff"
       /\ last_error' = t.error
       /\ UNCHANGED outcome

\* What follows the try block's outcome t.
AfterTry(t) ==
  IF t.kind = "return"
  THEN /\ rpc' = "returned"
       /\ outcome' = t
       /\ UNCHANGED last_error
  ELSE Except(t)

\* One pass through the try statement: the request is sent and answered.
Request ==
  /\ rpc = "try"
  /\ \E response \in Responses :
       /\ last_response' = response
       /\ AfterTry(TryRequest(response))
  /\ sent' = sent + 1
  /\ UNCHANGED << client, retries, attempt, sleeps, verifyVars, threadVars >>

\* if attempt < self.retries: sleep, and the loop goes on with the next attempt.
Sleep ==
  /\ rpc = "backoff" /\ attempt < retries
  /\ sleeps' = Append(sleeps, BackoffTenths(attempt))
  /\ attempt' = attempt + 1
  /\ rpc' = "try"
  /\ UNCHANGED << client, retries, last_error, outcome, sent, last_response, verifyVars,
                  threadVars >>

\* The last pass does not sleep and the range is used up.
EndLoop ==
  /\ rpc = "backoff" /\ ~(attempt < retries)
  /\ rpc' = "after_loop"
  /\ UNCHANGED << client, retries, attempt, last_error, outcome, sent, last_response,
                  sleeps, verifyVars, threadVars >>

\* if last_error: raise last_error, else the error of the last line.
RaiseLast ==
  /\ rpc = "after_loop"
  /\ outcome' = IF last_error # NoException THEN Raises(last_error)
                ELSE Raises(VeilChainError(<< "Request failed after retries" >>,
                                           NoStatus, "None"))
  /\ rpc' = "raised"
  /\ UNCHANGED << client, retries, attempt, last_error, sent, last_response, sleeps,
                  verifyVars, threadVars >>

NextRequest ==
  \/ Request
  \/ Sleep
  \/ EndLoop
  \/ RaiseLast

SpecRequest == InitRequest /\ [][NextRequest]_vars

----------------------------------------------------------------------------
(* Concurrent calls: two threads, the statements of verify_proof interleaved *)

\* Thread 1 verifies a Proof; thread 2 verifies the same Proof object or
\* another one, or encodes one of them, or hashes a value.
InitThreads ==
  /\ RequestIdle
  /\ VerifyIdle
  /\ \E path \in SeqsUpTo({HexB, NonHex}, MaxPath), dirs \in SeqsUpTo(Directions, MaxPath) :
       /\ Len(dirs) = Len(path) \/ dirs = << >>
       /\ \E root \in {HexA} \cup ChainRoots(HexA, path, dirs) :
            objects = << MerkleProof(HexA, 5, path, dirs, root), OtherProof >>
  /\ given = objects
  /\ \E o \in {"verify_proof", "to_compact_proof", "hash_data"}, a \in {1, 2} :
       threads = << Thread("verify_proof", 1), Thread(o, a) >>
  /\ current_hash = [s \in Threads |-> << >>]

\* A result.valid = False return of the checks at the head of the try block.
FailChecks(t, p, error) ==
  /\ threads' = [threads EXCEPT ![t].pc = "done",
                                ![t].result = EarlyReturn(p, error).result]
  /\ UNCHANGED current_hash

\* try: the three checks, then current_hash = proof.leaf.
EnterVerifyProof(t, p) ==
  IF CheckError(p) # NoError
  THEN FailChecks(t, p, CheckError(p))
  ELSE /\ current_hash' = [current_hash EXCEPT ![Frame(t)] = p.leaf]
       /\ threads' = [threads EXCEPT ![t].pc = "loop", ![t].k = 1]

ThreadCall(t) ==
  /\ threads[t].pc = "call" /\ threads[t].op = "verify_proof"
  /\ EnterVerifyProof(t, objects[threads[t].arg])
  /\ UNCHANGED << objects, given, verifyVars, requestVars >>

\* One pass of the loop body, h being what it computed; a raise goes to the
\* except clause.
AfterStep(t, p, h) ==
  IF h.raised
  THEN /\ threads' = [threads EXCEPT ![t].pc = "done",
                                     ![t].result = ExceptHandler(p, Raised(h)).result]
       /\ UNCHANGED current_hash
  ELSE /\ current_hash' = [current_hash EXCEPT ![Frame(t)] = h.value]
       /\ threads' = [threads EXCEPT ![t].k = @ + 1]

ThreadStep(t) ==
  /\ threads[t].pc = "loop"
  /\ threads[t].k <= Len(Zip(objects[threads[t].arg].proof, objects[threads[t].arg].directions))
  /\ AfterStep(t, objects[threads[t].arg],
               Step(current_hash[Frame(t)],
                    objects[threads[t].arg].proof[threads[t].k],
                    objects[threads[t].arg].directions[threads[t].k]))
  /\ UNCHANGED << objects, given, verifyVars, requestVars >>

\* The loop is over: valid = current_hash == proof.root and the return.
ThreadCompare(t) ==
  /\ threads[t].pc = "loop"
  /\ threads[t].k > Len(Zip(objects[threads[t].arg].proof, objects[threads[t].arg].directions))
  /\ threads' = [threads EXCEPT ![t].pc = "done",
                                ![t].result = Compare(objects[threads[t].arg], NoRun,
                                                      current_hash[Frame(t)]).result]
  /\ UNCHANGED << current_hash, objects, given, verifyVars, requestVars >>

\* to_compact_proof(proof) in one step.
ThreadToCompact(t) ==
  /\ threads[t].pc = "call" /\ threads[t].op = "to_compact_proof"
  /\ threads' = [threads EXCEPT ![t].pc = "done",
                                ![t].result = to_compact_proof(objects[threads[t].arg])]
  /\ UNCHANGED << current_hash, objects, given, verifyVars, requestVars >>

\* hash_data(data) in one step.
ThreadHashData(t) ==
  /\ threads[t].pc = "call" /\ threads[t].op = "hash_data"
  /\ threads' = [threads EXCEPT ![t].pc = "done", ![t].result = hash_data(ThreadData)]
  /\ UNCHANGED << current_hash, objects, given, verifyVars, requestVars >>

\* The thread makes the same call again.
ThreadRepeat(t) ==
  /\ threads[t].pc = "done" /\ threads[t].calls < MaxCalls
  /\ threads' = [threads EXCEPT ![t].pc = "call", ![t].k = 0,
                                ![t].prev = threads[t].result,
                                ![t].result = NoResult,
                                ![t].calls = @ + 1]
  /\ UNCHANGED << current_hash, objects, given, verifyVars, requestVars >>

NextThreads ==
  \E t \in Threads :
    \/ ThreadCall(t)
    \/ ThreadStep(t)
    \/ ThreadCompare(t)
    \/ ThreadToCompact(t)
    \/ ThreadHashData(t)
    \/ ThreadRepeat(t)

SpecThreads == InitThreads /\ [][NextThreads]_vars

----------------------------------------------------------------------------
(* Properties *)

Returned(o) == pc = "done" /\ op = o

\* s is exactly HashLen hexadecimal characters.
Is64Hex(s) == Len(s) = HashLen /\ \A k \in 1..Len(s) : IsHexDigit(s[k])

\* s is hex text that converts to bytes.
ValidHex(s) == ~hex_to_bytes(s).raised

LeafError == << "Invalid leaf hash: must be 64 character hex string" >>
RootError == << "Invalid root hash: must be 64 character hex string" >>
LengthError == << "Proof and directions arrays must have the same length" >>
MismatchError == << "Computed root does not match expected root" >>
DataError == << "Data hash does not match proof leaf" >>

\* The three checks of verify_proof pass.
ChecksPass(p) ==
  Len(p.leaf) = HashLen /\ Len(p.root) = HashLen /\ Len(p.proof) = Len(p.directions)

AllValidHex(p) == ValidHex(p.leaf) /\ \A k \in 1..Len(p.proof) : ValidHex(p.proof[k])

\* C1: for a Proof with a 64-character leaf and root, path and directions of
\* equal length and a leaf and siblings that are valid hex, verify_proof starts
\* from current = leaf, takes the (sibling, direction) pairs in array order with
\* current = hash_pair(sibling, current) for left and hash_pair(current, sibling)
\* for right, and returns valid = TRUE exactly when the last current equals
\* root; the error is absent then and is the mismatch message otherwise.
C1_ChainDecidesValid ==
  (Returned("verify_proof") /\ ChecksPass(proof) /\ AllValidHex(proof)) =>
    /\ ~raised
    /\ Len(currents) = Len(proof.proof) + 1
    /\ currents[1] = proof.leaf
    /\ \A k \in 1..Len(proof.proof) :
         currents[k + 1] =
           IF proof.directions[k] = "left"
           THEN hash_pair(proof.proof[k], currents[k]).value
           ELSE hash_pair(currents[k], proof.proof[k]).value
    /\ result.valid = (currents[Len(currents)] = proof.root)
    /\ result.error =
         IF currents[Len(currents)] = proof.root THEN NoError ELSE MismatchError

\* A two-step chain, left then right, over different siblings reaches the root.
C1_Witness ==
  /\ Returned("verify_proof") /\ ChecksPass(proof) /\ AllValidHex(proof)
  /\ Len(proof.proof) = 2
  /\ proof.directions = << "left", "right" >>
  /\ proof.proof[1] # proof.proof[2]
  /\ result.valid

\* The messages of the leaf and siblings that do not convert to bytes.
HexFailures(p) ==
  {hex_to_bytes(x).message :
     x \in {y \in {p.leaf} \cup {p.proof[k] : k \in 1..Len(p.proof)} : ~ValidHex(y)}}

\* C2: verify_proof never raises to its caller; every call returns a result, and
\* when the checks pass but a step cannot be hashed (the leaf or a sibling is
\* not valid hex) the result has valid = FALSE and the failure's message as error.
C2_NeverRaises ==
  Returned("verify_proof") =>
    /\ ~raised
    /\ result # NoResult
    /\ (ChecksPass(proof) /\ proof.proof # << >> /\ ~AllValidHex(proof)) =>
         (result.valid = FALSE /\ result.error \in HexFailures(proof))

\* The checks passed, the second sibling could not be converted, and the call
\* returned that failure's message.
C2_Witness ==
  /\ Returned("verify_proof") /\ ChecksPass(proof)
  /\ Len(proof.proof) = 2
  /\ ValidHex(proof.leaf) /\ ValidHex(proof.proof[1]) /\ ~ValidHex(proof.proof[2])
  /\ ~raised
  /\ result.error = hex_to_bytes(proof.proof[2]).message

\* C3: a Proof whose leaf or root is not exactly 64 hexadecimal characters gets
\* valid = FALSE with the invalid-leaf-hash error (leaf) or the
\* invalid-root-hash error (root, the leaf being fine).
C3_NonHexDigestRejected ==
  Returned("verify_proof") =>
    /\ ~Is64Hex(proof.leaf) => (result.valid = FALSE /\ result.error = LeafError)
    /\ (Is64Hex(proof.leaf) /\ ~Is64Hex(proof.root)) =>
         (result.valid = FALSE /\ result.error = RootError)

\* C4: when verify_proof returns valid = TRUE, the leaf, the root and every
\* sibling are exactly 64 hexadecimal characters.
C4_ValidOnlyForDigests ==
  (Returned("verify_proof") /\ result.valid) =>
    /\ Is64Hex(proof.leaf)
    /\ Is64Hex(proof.root)
    /\ \A k \in 1..Len(proof.proof) : Is64Hex(proof.proof[k])

\* C5: verify_proof makes its checks in the order leaf, root, path/directions
\* length and stops at the first that fails (a check fails on a leaf or root
\* whose length is not 64, or on lists of different lengths): the error is that
\* of the earliest failing check and no hash_pair call is made.
C5_ChecksInOrder ==
  Returned("verify_proof") =>
    /\ Len(proof.leaf) # HashLen =>
         (result.valid = FALSE /\ result.error = LeafError /\ hashPairCalls = 0)
    /\ (Len(proof.leaf) = HashLen /\ Len(proof.root) # HashLen) =>
         (result.valid = FALSE /\ result.error = RootError /\ hashPairCalls = 0)
    /\ (Len(proof.leaf) = HashLen /\ Len(proof.root) = HashLen
          /\ Len(proof.proof) # Len(proof.directions)) =>
         (result.valid = FALSE /\ result.error = LengthError /\ hashPairCalls = 0)

\* All three checks fail on one Proof, and the leaf error is the one reported.
C5_Witness ==
  /\ Returned("verify_proof")
  /\ Len(proof.leaf) # HashLen /\ proof.leaf # << >>
  /\ Len(proof.root) # HashLen
  /\ Len(proof.proof) # Len(proof.directions)
  /\ result.error = LeafError

\* C6: a Proof with a 64-character leaf and root whose path and directions
\* differ in length gets valid = FALSE with the same-length error, and no pair
\* of a truncated prefix is hashed.
C6_LengthMismatchRejected ==
  (Returned("verify_proof") /\ Len(proof.leaf) = HashLen /\ Len(proof.root) = HashLen
     /\ Len(proof.proof) # Len(proof.directions)) =>
    (result.valid = FALSE /\ result.error = LengthError /\ hashPairCalls = 0)

\* The lengths differ and the root is the one the common prefix of the pairs
\* leads to: the prefix would have verified.
C6_Witness ==
  /\ Returned("verify_proof") /\ Len(proof.leaf) = HashLen /\ Len(proof.root) = HashLen
  /\ Len(proof.proof) = 2 /\ Len(proof.directions) = 1
  /\ proof.root \in ChainRoots(proof.leaf, proof.proof, proof.directions)
  /\ result.valid = FALSE

\* Every sibling has 64 characters and there is one direction per sibling.
WellFormedProof(p) ==
  /\ Len(p.proof) = Len(p.directions)
  /\ \A k \in 1..Len(p.proof) : Len(p.proof[k]) = HashLen
  /\ \A k \in 1..Len(p.directions) : p.directions[k] \in {"left", "right"}

\* C7: for a well-formed Proof p, parse_compact_proof(to_compact_proof(p))
\* equals p in leaf, root, index, path and directions.
C7_ProofRoundTrip ==
  (Returned("to_compact_proof") /\ WellFormedProof(proof)) =>
    /\ ~parse_compact_proof(result).raised
    /\ parse_compact_proof(result).value = proof

\* A well-formed Proof with two different siblings and two different directions
\* has been encoded.
C7_Witness ==
  /\ Returned("to_compact_proof") /\ WellFormedProof(proof)
  /\ Len(proof.proof) = 2
  /\ proof.proof[1] # proof.proof[2]
  /\ proof.directions[1] # proof.directions[2]
  /\ Len(result.p) = 2 * HashLen

\* Version 1, p made of whole hashes, d made of '0' and '1', one per hash.
WellFormedCompact(c) ==
  /\ c.v = 1
  /\ Len(c.p) % HashLen = 0
  /\ Len(c.d) = Len(c.p) \div HashLen
  /\ \A k \in 1..Len(c.d) : c.d[k] \in {"0", "1"}

\* C8: for a well-formed CompactProof c, to_compact_proof(parse_compact_proof(c))
\* equals c in v, l, r, i, p and d.
C8_CompactRoundTrip ==
  (Returned("parse_compact_proof") /\ WellFormedCompact(compact)) =>
    to_compact_proof(result) = compact

\* A well-formed CompactProof of two different hashes and bits "01" or "10"
\* has been decoded.
C8_Witness ==
  /\ Returned("parse_compact_proof") /\ WellFormedCompact(compact)
  /\ Len(compact.d) = 2
  /\ compact.d[1] # compact.d[2]
  /\ Len(result.proof) = 2
  /\ result.proof[1] # result.proof[2]

\* C9: parse_compact_proof fails with a decode error when len(p) is not a
\* multiple of 64 or len(d) differs from len(p) / 64, and it never returns a
\* Proof whose path and directions differ in length or whose last sibling is
\* shorter than 64 characters.
C9_CompactLengthsValidated ==
  Returned("parse_compact_proof") =>
    /\ (Len(compact.p) % HashLen # 0 \/ Len(compact.d) # Len(compact.p) \div HashLen)
         => raised
    /\ ~raised =>
         /\ Len(result.proof) = Len(result.directions)
         /\ \A k \in 1..Len(result.proof) : Len(result.proof[k]) = HashLen

\* C10: when hash_data(value) differs from proof.leaf, verify_data_with_proof
\* returns valid = FALSE, data_match = FALSE and the data-hash error without
\* calling verify_proof or hash_pair, whatever the path would verify to.
C10_DataMismatchShortCircuits ==
  (Returned("verify_data_with_proof") /\ hash_data(data) # proof.leaf) =>
    /\ ~raised
    /\ result.valid = FALSE
    /\ result.data_match = FALSE
    /\ result.error = DataError
    /\ verifyProofCalls = 0
    /\ hashPairCalls = 0

\* The data does not hash to the leaf although the proof itself verifies: the
\* checks pass and a non-empty path leads from the leaf to the root.
C10_Witness ==
  /\ Returned("verify_data_with_proof") /\ hash_data(data) # proof.leaf
  /\ ChecksPass(proof)
  /\ proof.proof # << >>
  /\ proof.root \in ChainRoots(proof.leaf, proof.proof, proof.directions)
  /\ verify_proof(proof).result.valid
  /\ result.valid = FALSE

\* C11: when hash_data(value) equals proof.leaf, verify_data_with_proof calls
\* verify_proof once and returns data_match = TRUE together with the outcome of
\* verify_proof(proof): the same valid, leaf, root, index, sibling count and
\* error. In every result of verify_data_with_proof, valid = TRUE implies
\* data_match = TRUE.
C11_DataMatchDelegates ==
  Returned("verify_data_with_proof") =>
    /\ hash_data(data) = proof.leaf =>
         /\ raised = verify_proof(proof).raised
         /\ verifyProofCalls = 1
         /\ result.data_match = TRUE
         /\ result.valid = verify_proof(proof).result.valid
         /\ result.leaf = verify_proof(proof).result.leaf
         /\ result.root = verify_proof(proof).result.root
         /\ result.index = verify_proof(proof).result.index
         /\ result.proof_length = verify_proof(proof).result.proof_length
         /\ result.error = verify_proof(proof).result.error
    /\ result.valid => result.data_match

\* The data hashes to the leaf and verify_proof rejects the proof with the
\* root-mismatch error after hashing a non-empty path: the error is forwarded.
C11_Witness ==
  /\ Returned("verify_data_with_proof") /\ hash_data(data) = proof.leaf
  /\ data.kind = "dict"
  /\ proof.proof # << >>
  /\ hashPairCalls = Len(proof.proof)
  /\ result.data_match = TRUE
  /\ result.valid = FALSE
  /\ result.error = MismatchError

\* The single-sibling Proof p has passed the three checks, its leaf and its
\* sibling convert from hex, and its root is the digest of the leaf's bytes
\* followed by the sibling's bytes.
RootOfLeafThenSibling(p) ==
  /\ ChecksPass(p) /\ Len(p.proof) = 1
  /\ ValidHex(p.leaf) /\ ValidHex(p.proof[1])
  /\ p.root = sha256(hex_to_bytes(p.leaf).bytes \o hex_to_bytes(p.proof[1]).bytes)

\* The leaf's bytes followed by the sibling's are not the sibling's followed by
\* the leaf's; two different byte strings of one length never are.
OrderMatters(p) ==
  hex_to_bytes(p.leaf).bytes \o hex_to_bytes(p.proof[1]).bytes
    # hex_to_bytes(p.proof[1]).bytes \o hex_to_bytes(p.leaf).bytes

\* C12 as stated: for a single-sibling Proof whose root is
\* hash(leaf_bytes || sibling_bytes) and whose sibling string differs from the
\* leaf string, verify_proof returns valid = TRUE for direction right and
\* valid = FALSE for direction left.
C12_Original ==
  (Returned("verify_proof") /\ RootOfLeafThenSibling(proof)
     /\ proof.proof[1] # proof.leaf) =>
    /\ proof.directions[1] = "right" => result.valid = TRUE
    /\ proof.directions[1] = "left" => result.valid = FALSE

\* C12: hash_pair concatenates in the order given, so for a single-sibling
\* Proof whose root is hash(leaf_bytes || sibling_bytes) and whose
\* sibling_bytes || leaf_bytes is a different byte string, verify_proof returns
\* valid = TRUE for direction right and valid = FALSE for direction left.
C12_DirectionDecides ==
  (Returned("verify_proof") /\ RootOfLeafThenSibling(proof) /\ OrderMatters(proof)) =>
    /\ proof.directions[1] = "right" =>
         (result.valid = TRUE /\ result.error = NoError)
    /\ proof.directions[1] = "left" =>
         (result.valid = FALSE /\ result.error = MismatchError)

\* The root was made for direction right and the Proof says left: the pair was
\* hashed sibling first and the result is not the root.
C12_Witness ==
  /\ Returned("verify_proof") /\ RootOfLeafThenSibling(proof) /\ OrderMatters(proof)
  /\ Len(proof.proof[1]) = HashLen
  /\ proof.directions = << "left" >>
  /\ hashPairCalls = 1
  /\ result.valid = FALSE

\* C13: in every result returned by verify_proof and verify_data_with_proof the
\* error is absent when valid is TRUE and is a non-empty message when valid is
\* FALSE, on every return path: the failed checks, the data mismatch, the
\* comparison with the root and the caught exception.
C13_ErrorIffInvalid ==
  (Returned("verify_proof") \/ Returned("verify_data_with_proof")) =>
    /\ ~raised
    /\ result.valid = TRUE => result.error = NoError
    /\ result.valid = FALSE =>
         (result.error # NoError /\ result.error[1] # "")

\* verify_data_with_proof has returned what verify_proof built in its except
\* clause: the data matches and a sibling did not convert from hex.
C13_Witness ==
  /\ Returned("verify_data_with_proof") /\ hash_data(data) = proof.leaf
  /\ ChecksPass(proof)
  /\ \E k \in 1..Len(proof.proof) : ~ValidHex(proof.proof[k])
  /\ result.valid = FALSE
  /\ result.error \notin {NoError, LeafError, RootError, LengthError, MismatchError, DataError}

\* C14: the index takes no part in the verdict. The Proof that differs from the
\* verified one only in its index gets the same valid flag and the same error
\* from verify_proof, and each result echoes the index it was given.
C14_IndexNotUsed ==
  Returned("verify_proof") =>
    /\ result.index = proof.index
    /\ \A i \in Indices :
         /\ verify_proof([proof EXCEPT !.index = i]).result.valid = result.valid
         /\ verify_proof([proof EXCEPT !.index = i]).result.error = result.error
         /\ verify_proof([proof EXCEPT !.index = i]).result.index = i

\* A Proof with index 5 and a single sibling has verified: no tree of two
\* leaves has a position 5, and the Proof with index 0 verifies as well.
C14_Witness ==
  /\ Returned("verify_proof") /\ ChecksPass(proof)
  /\ proof.index = 5 /\ Len(proof.proof) = 1
  /\ result.valid = TRUE /\ result.index = 5
  /\ verify_proof([proof EXCEPT !.index = 0]).result.valid = TRUE

\* The number of characters of parts[1..k].
RECURSIVE LenUpTo(_, _)
LenUpTo(parts, k) == IF k = 0 THEN 0 ELSE LenUpTo(parts, k - 1) + Len(parts[k])

\* C16: to_compact_proof emits version 1, copies leaf, root and index, gives p
\* as the siblings one after the other in path order with nothing between them
\* and d as one character per direction in order, '0' for left and '1' for
\* right; for a Proof with 64-character siblings and as many directions as
\* siblings, len(p) = 64 * len(d).
C16_CompactEncoding ==
  Returned("to_compact_proof") =>
    /\ ~raised
    /\ result.v = 1
    /\ result.l = proof.leaf /\ result.r = proof.root /\ result.i = proof.index
    /\ Len(result.p) = LenUpTo(proof.proof, Len(proof.proof))
    /\ \A k \in 1..Len(proof.proof) :
         SubSeq(result.p, LenUpTo(proof.proof, k - 1) + 1, LenUpTo(proof.proof, k))
           = proof.proof[k]
    /\ Len(result.d) = Len(proof.directions)
    /\ \A k \in 1..Len(proof.directions) :
         /\ proof.directions[k] = "left" => result.d[k] = "0"
         /\ proof.directions[k] = "right" => result.d[k] = "1"
    /\ WellFormedProof(proof) => Len(result.p) = HashLen * Len(result.d)

\* A Proof of two different 64-character siblings with directions right, left
\* has been encoded as 128 characters and the bits "10".
C16_Witness ==
  /\ Returned("to_compact_proof") /\ WellFormedProof(proof)
  /\ Len(proof.proof) = 2 /\ proof.proof[1] # proof.proof[2]
  /\ proof.directions = << "right", "left" >>
  /\ result.d = << "1", "0" >>
  /\ Len(result.p) = 2 * HashLen

\* C17: parse_compact_proof copies l, r and i, maps each character of d in
\* order to a direction, '0' to left and any other character to right, and,
\* when len(p) is a multiple of 64, splits p into len(p) / 64 siblings that are
\* its consecutive 64-character chunks in order.
C17_CompactDecoding ==
  Returned("parse_compact_proof") =>
    /\ ~raised
    /\ result.leaf = compact.l /\ result.root = compact.r /\ result.index = compact.i
    /\ Len(result.directions) = Len(compact.d)
    /\ \A k \in 1..Len(compact.d) :
         result.directions[k] = (IF compact.d[k] = "0" THEN "left" ELSE "right")
    /\ Len(compact.p) % HashLen = 0 =>
         /\ Len(result.proof) = Len(compact.p) \div HashLen
         /\ \A k \in 1..Len(result.proof) :
              /\ Len(result.proof[k]) = HashLen
              /\ \A j \in 1..HashLen :
                   result.proof[k][j] = compact.p[HashLen * (k - 1) + j]

\* Two different 64-character hashes with d = "01" have been decoded into two
\* siblings with directions left, right.
C17_Witness ==
  /\ Returned("parse_compact_proof")
  /\ Len(compact.p) = 2 * HashLen
  /\ compact.d = << "0", "1" >>
  /\ Len(result.proof) = 2 /\ result.proof[1] # result.proof[2]
  /\ result.directions = << "left", "right" >>

\* The text of json.dumps({'q"': '\\', 'vote': 'yes'}, separators=(",", ":")).
EscapedText ==
  << "{", "\"", "q", "\\", "\"", "\"", ":", "\"", "\\", "\\", "\"", ",",
     "\"", "v", "o", "t", "e", "\"", ":", "\"", "y", "e", "s", "\"", "}" >>

\* The compact serialization of the structured values, written out.
CompactTextOf(d) ==
  IF d = DictValue(<< Vote >>) THEN VoteText ELSE EscapedText

\* C18: hash_data hashes the UTF-8 bytes of a text as they are and those of the
\* compact serialization of any other value, so a structured value and the
\* text of its compact serialization have the same hash; verify_data(value,
\* expected) is TRUE exactly when hash_data(value) and expected are the same
\* string.
C18_HashDataSerialization ==
  /\ Returned("hash_data") =>
       /\ ~raised
       /\ data.kind = "str" => result = sha256(Utf8Encode(data.text))
       /\ data.kind = "dict" =>
            /\ result = sha256(Utf8Encode(CompactTextOf(data)))
            /\ result = hash_data(TextValue(CompactTextOf(data)))
            /\ \A k \in 1..Len(CompactTextOf(data)) : CompactTextOf(data)[k] # " "
  /\ Returned("verify_data") =>
       /\ ~raised
       /\ result = (sha256(Utf8Encode(IF data.kind = "str" THEN data.text
                                       ELSE CompactTextOf(data))) = expected_hash)

\* verify_data has accepted the structured value {"vote": "yes"} against the
\* hash of the text {"vote":"yes"}.
C18_Witness ==
  /\ Returned("verify_data")
  /\ data = DictValue(<< Vote >>)
  /\ expected_hash = hash_data(TextValue(VoteText))
  /\ result = TRUE

\* What the call of thread t returns when it runs alone on the objects as they
\* were handed over.
Alone(t) ==
  IF threads[t].op = "verify_proof" THEN verify_proof(given[threads[t].arg]).result
  ELSE IF threads[t].op = "to_compact_proof" THEN to_compact_proof(given[threads[t].arg])
  ELSE hash_data(ThreadData)

\* C15: the calls keep no state between or across them. However the statements
\* of two threads' calls of verify_proof, to_compact_proof and hash_data are
\* interleaved, each finished call has returned what it returns when run alone
\* on the same input, a repeated call has returned what the call before it
\* returned, and the Proof objects are as they were handed over.
C15_CallsIndependent ==
  /\ objects = given
  /\ \A t \in Threads :
       threads[t].pc = "done" =>
         /\ threads[t].result = Alone(t)
         /\ threads[t].calls > 1 => threads[t].result = threads[t].prev

\* Both threads verify the same two-sibling Proof object: thread 1 has finished
\* its repeated call with valid = TRUE while thread 2 is in the middle of its
\* loop.
C15_Witness ==
  /\ threads[1].arg = threads[2].arg /\ threads[2].op = "verify_proof"
  /\ Len(objects[threads[1].arg].proof) = 2
  /\ threads[1].pc = "done" /\ threads[1].calls = 2
  /\ threads[1].result.valid = TRUE
  /\ threads[2].pc = "loop" /\ threads[2].k = 2
  /\ current_hash[2] # current_hash[1]

\* The last request was answered with a response of status 400..499.
AnsweredClientError ==
  /\ sent > 0 /\ last_response.kind = "response"
  /\ 400 <= last_response.status /\ last_response.status < 500

\* The last request raised in the transport or was answered with a status that
\* is neither a success nor 400..499.
AnsweredRetryable ==
  /\ sent > 0
  /\ \/ last_response.kind = "exception"
     \/ /\ last_response.kind = "response" /\ ~IsSuccess(last_response)
        /\ ~(400 <= last_response.status /\ last_response.status < 500)

\* C19: in _request a response with a status in 400..499 is raised to the
\* caller as a VeilChainError of that status on the attempt at which it comes,
\* with no attempt and no sleep after it; a non-success response outside
\* 400..499 or a transport exception never ends the call while attempts remain:
\* it is followed by a sleep and the next attempt.
C19_ClientErrorEndsRetries ==
  /\ AnsweredClientError =>
       /\ rpc = "raised"
       /\ outcome.kind = "raise"
       /\ outcome.error.type = "VeilChainError"
       /\ outcome.error.status = last_response.status
       /\ sent = attempt + 1
       /\ Len(sleeps) = attempt
  /\ AnsweredRetryable =>
       /\ rpc # "returned"
       /\ rpc \in {"after_loop", "raised"} => sent = retries + 1
       /\ rpc = "try" => (attempt = sent /\ Len(sleeps) = sent /\ attempt <= retries)

\* What return response.json() if response.content else None gives for a body
\* that can be parsed.
BodyOf(response) ==
  IF response.content = "empty" THEN NoneValue ELSE JsonValue(response.content)

\* The sleeps between n consecutive attempts: 0.1 s, 0.2 s, 0.4 s, ...
SleepsBetween(n) == [k \in 1..(n - 1) |-> 2 ^ (k - 1)]

\* C20: for retries >= 0, _request makes at most retries + 1 attempts; it
\* returns the body of the first successful response without a further
\* attempt; when every attempt has failed with a retryable error it raises the
\* error of the last attempt after exactly retries sleeps; and it sleeps only
\* between two consecutive attempts, never after the last one.
C20_BoundedRetries ==
  retries >= 0 =>
    /\ sent <= retries + 1
    /\ (sent > 0 /\ last_response.kind = "response" /\ IsSuccess(last_response)) =>
         /\ rpc = "returned"
         /\ outcome = Returns(BodyOf(last_response))
         /\ sleeps = SleepsBetween(sent)
    /\ (rpc = "raised" /\ ~IsClientError(outcome.error)) =>
         /\ sent = retries + 1
         /\ outcome = TryRequest(last_response)
         /\ sleeps = SleepsBetween(retries + 1)
    /\ sleeps = SleepsBetween(IF rpc = "try" THEN sent + 1 ELSE sent)

====
